---- MODULE Spec2Model ----
(***************************************************************************)
(* rubbish-day (src/main.py): one run of main().  The run checks the two   *)
(* environment settings, posts one request, parses the response into a     *)
(* RubbishDay (date, bins) and drives the two LED pins.  Every GPIO.output *)
(* call is one step, so the pin levels between two writes are states.      *)
(* Time is counted in whole hours since 1 January 00:00 of the first year  *)
(* of Years; datetime differences are differences of these counts.         *)
(***************************************************************************)
EXTENDS Integers, Sequences, FiniteSets, TLC

VARIABLES
    pc,            \* position of the run in main / set_led_appropriately
    STREET_ID,     \* os.getenv("STREET_ID")
    STREET_NAME,   \* os.getenv("STREET_NAME")
    response,      \* the response of requests.post
    now,           \* the wall clock, in hours
    rubbish_day,   \* the RubbishDay returned by parse_response, or NoEvent
    red,           \* level of GPIO_PIN_RED   (TRUE = GPIO.HIGH)
    green,         \* level of GPIO_PIN_GREEN (TRUE = GPIO.HIGH)
    pins0,         \* the pin levels the run found when it started
    writes,        \* the number of GPIO.output calls of this run
    decisions,     \* what set_led_appropriately decided, call after call
    outcome        \* how main ended: exit code or the exception raised

vars == <<pc, STREET_ID, STREET_NAME, response, now, rubbish_day,
          red, green, pins0, writes, decisions, outcome>>

----------------------------------------------------------------------------
(* Bounds of the model *)

\* longest list of <li> items in a response
MaxItems == 3
\* most hours that pass between the clock read of parse_response and the
\* clock read of set_led_appropriately
MaxElapsed == 1
\* most re-evaluations of the decision for one event (SpecMono)
MaxTicks == 3

----------------------------------------------------------------------------
(* Program constants *)

BIN_COLLECTION_TIME == 7
REMIND_HOURS_BEFORE == 16

RUBBISH == "RUBBISH"
GLASS_CRATE == "GLASS_CRATE"
RECYCLING_BAG == "RECYCLING_BAG"

\* class Bin(enum.Enum): the members and their values
Bin == {RUBBISH, GLASS_CRATE, RECYCLING_BAG}
BinValue(b) == CASE b = RUBBISH -> 0 [] b = GLASS_CRATE -> 1 [] b = RECYCLING_BAG -> 2

None == "None"
\* no RubbishDay: a date no datetime has
NoDate == [year |-> 0, month |-> 0, day |-> 0, hour |-> 0]
NoEvent == [date |-> NoDate, bins |-> <<>>]

----------------------------------------------------------------------------
(* The calendar of datetime *)

Years == {2023, 2024}
FirstYear == CHOOSE y \in Years : \A z \in Years : y <= z

IsLeap(y) == (y % 4 = 0 /\ y % 100 # 0) \/ (y % 400 = 0)

DaysInMonth(y, m) ==
    IF m = 2 THEN (IF IsLeap(y) THEN 29 ELSE 28)
    ELSE IF m \in {4, 6, 9, 11} THEN 30 ELSE 31

DaysInYear(y) == IF IsLeap(y) THEN 366 ELSE 365

RECURSIVE DaysBeforeMonth(_, _)
DaysBeforeMonth(y, m) ==
    IF m <= 1 THEN 0 ELSE DaysBeforeMonth(y, m - 1) + DaysInMonth(y, m - 1)

RECURSIVE DaysBeforeYear(_)
DaysBeforeYear(y) ==
    IF y <= FirstYear THEN 0 ELSE DaysBeforeYear(y - 1) + DaysInYear(y - 1)

\* datetime(year, month, day, hour) raises ValueError unless this holds
ValidDate(y, m, d) == m \in 1..12 /\ d \in 1..DaysInMonth(y, m)

\* the position of a datetime on the time line, in hours
ToHours(dt) ==
    (DaysBeforeYear(dt.year) + DaysBeforeMonth(dt.year, dt.month) + dt.day - 1) * 24
        + dt.hour

\* datetime.now().year
YearOf(h) ==
    CHOOSE y \in FirstYear..(FirstYear + Cardinality(Years)) :
        DaysBeforeYear(y) * 24 <= h /\ h < DaysBeforeYear(y + 1) * 24

----------------------------------------------------------------------------
(* Text: a string is a sequence of tokens; "\n", " ", "\r" and "(" are the  *)
(* single characters the code looks for, every other token is a run of     *)
(* other characters.                                                       *)

LF == "\n"
SP == " "
CR == "\r"
PAREN == "("

\* str.replace(tok, '')
RECURSIVE Remove(_, _)
Remove(s, tok) ==
    IF s = <<>> THEN <<>>
    ELSE IF Head(s) = tok THEN Remove(Tail(s), tok)
    ELSE <<Head(s)>> \o Remove(Tail(s), tok)

RECURSIVE LStrip(_, _)
LStrip(s, tok) ==
    IF s # <<>> /\ Head(s) = tok THEN LStrip(Tail(s), tok) ELSE s

RECURSIVE RStrip(_, _)
RStrip(s, tok) ==
    IF s # <<>> /\ s[Len(s)] = tok THEN RStrip(SubSeq(s, 1, Len(s) - 1), tok) ELSE s

\* str.strip(tok): leading and trailing occurrences only
Strip(s, tok) == RStrip(LStrip(s, tok), tok)

\* str.split(tok)[0]: the text before the first tok
RECURSIVE SplitFirst(_, _)
SplitFirst(s, tok) ==
    IF s = <<>> \/ Head(s) = tok THEN <<>>
    ELSE <<Head(s)>> \o SplitFirst(Tail(s), tok)

WeekdayNames ==
    {"Monday", "Tuesday", "Wednesday", "Thursday", "Friday", "Saturday", "Sunday"}

MonthNumber(name) ==
    CASE name = "January" -> 1 [] name = "February" -> 2 [] name = "March" -> 3
      [] name = "April" -> 4 [] name = "May" -> 5 [] name = "June" -> 6
      [] name = "July" -> 7 [] name = "August" -> 8 [] name = "September" -> 9
      [] name = "October" -> 10 [] name = "November" -> 11 [] name = "December" -> 12
      [] OTHER -> 0

\* %d: one or two digits, 1..31; the day tokens the model feeds
DayNumber(tok) ==
    CASE tok = "1" -> 1 [] tok = "3" -> 3 [] tok = "03" -> 3 [] tok = "28" -> 28
      [] tok = "29" -> 29 [] tok = "30" -> 30 [] tok = "31" -> 31
      [] OTHER -> 0

\* the year datetime.strptime gives a date whose format has no year
StrptimeDefaultYear == 1900

\* datetime.strptime(date_raw, '%A,%d%B'): the whole text must be weekday,
\* comma, day, month; the date is then built in the default year, so the day
\* must exist in that year's month.  The weekday is matched and dropped.
Strptime(date_raw) ==
    IF /\ Len(date_raw) = 4
       /\ date_raw[1] \in WeekdayNames
       /\ date_raw[2] = ","
       /\ DayNumber(date_raw[3]) # 0
       /\ MonthNumber(date_raw[4]) # 0
       /\ ValidDate(StrptimeDefaultYear, MonthNumber(date_raw[4]), DayNumber(date_raw[3]))
    THEN [ok |-> TRUE, month |-> MonthNumber(date_raw[4]), day |-> DayNumber(date_raw[3])]
    ELSE [ok |-> FALSE, month |-> 0, day |-> 0]

----------------------------------------------------------------------------
(* parse_response *)

\* collection_map.get(li_item.text)
collection_map(text) ==
    CASE text = "Rubbish" -> RUBBISH
      [] text = "Glass crate" -> GLASS_CRATE
      [] text = "Wheelie bin or recycling bags" -> RECYCLING_BAG
      [] OTHER -> None

\* a mutant of Truthy: the member's value decides, as for an IntEnum
TruthyByValue(bin_type) == bin_type # None /\ BinValue(bin_type) # 0

\* bool(bin_type): None is false, every member of a plain Enum is true
Truthy(bin_type) == bin_type # None

\* the loop over find_all('li'): the bins collected, or None when it raised
RECURSIVE CollectItems(_, _)
CollectItems(items, collection_items) ==
    IF items = <<>> THEN [ok |-> TRUE, bins |-> collection_items]
    ELSE LET bin_type == collection_map(Head(items))
         IN  IF ~Truthy(bin_type) THEN [ok |-> FALSE, bins |-> <<>>]
             ELSE CollectItems(Tail(items), Append(collection_items, bin_type))

\* lines 96-97: the text of the date element, cleaned
CleanDate(text) == SplitFirst(Strip(Remove(Remove(text, LF), SP), CR), PAREN)

Raised(exc) == [exc |-> exc, event |-> NoEvent]
Returned(event) == [exc |-> None, event |-> event]

\* parse_response(html), with the year datetime.now() gives
parse_response(html, year) ==
    IF ~html.has_date THEN Raised("ValueError:no_collection_date")
    ELSE IF ~html.has_items THEN Raised("ValueError:no_collection_items")
    ELSE LET parsed_bin_date == Strptime(CleanDate(html.date_text))
         IN  IF ~parsed_bin_date.ok THEN Raised("ValueError:strptime")
             ELSE IF ~ValidDate(year, parsed_bin_date.month, parsed_bin_date.day)
                  THEN Raised("ValueError:datetime")
             ELSE LET collected == CollectItems(html.items, <<>>)
                  IN  IF ~collected.ok THEN Raised("AttributeError:unknown_bin_type")
                      ELSE Returned([date |-> [year |-> year,
                                               month |-> parsed_bin_date.month,
                                               day |-> parsed_bin_date.day,
                                               hour |-> BIN_COLLECTION_TIME],
                                     bins |-> collected.bins])

----------------------------------------------------------------------------
(* set_led_appropriately: the decision *)

InSeq(x, s) == \E i \in 1..Len(s) : s[i] = x

\* rubbish_day.date - datetime.now(), in hours
time_until_bin(event, t) == ToHours(event.date) - t

\* mutants of TooEarly
TooEarlyInclusive(event, t) == time_until_bin(event, t) >= REMIND_HOURS_BEFORE
TooEarlyAbsolute(event, t) ==
    time_until_bin(event, t) > REMIND_HOURS_BEFORE
        \/ time_until_bin(event, t) < 0

\* line 142
TooEarly(event, t) == time_until_bin(event, t) > REMIND_HOURS_BEFORE

\* mutants of BinChoice
BinChoiceGlassFirst(bins) ==
    IF InSeq(GLASS_CRATE, bins) THEN GLASS_CRATE
    ELSE IF InSeq(RECYCLING_BAG, bins) THEN RECYCLING_BAG
    ELSE "AssertionError"
BinChoiceDefault(bins) ==
    IF InSeq(RECYCLING_BAG, bins) THEN RECYCLING_BAG
    ELSE IF InSeq(GLASS_CRATE, bins) THEN GLASS_CRATE
    ELSE GLASS_CRATE

\* lines 146-153
BinChoice(bins) ==
    IF InSeq(RECYCLING_BAG, bins) THEN RECYCLING_BAG
    ELSE IF InSeq(GLASS_CRATE, bins) THEN GLASS_CRATE
    ELSE "AssertionError"

\* lines 141-153: "NONE" (return False), the bin signalled, or the exception
Decide(event, t) == IF TooEarly(event, t) THEN "NONE" ELSE BinChoice(event.bins)

----------------------------------------------------------------------------
(* The inputs of a run *)

\* values of an environment variable: unset, empty, set
StreetIdValues == {None, "1234"}
StreetNameValues == {None, "", "Example Street"}

\* the <li> texts: the three labels of collection_map and one it lacks
Labels == {"Rubbish", "Glass crate", "Wheelie bin or recycling bags", "Green waste"}
ItemLists == UNION {[1..n -> Labels] : n \in 0..MaxItems}

Core(wd, d, m) == <<wd, ",", SP, d, SP, m>>

\* texts of the collection-date element
DateTexts ==
    {Core("Monday", d, m) : d \in {"3", "29"}, m \in {"January", "February", "March"}}
    \cup
    { Core("Thursday", "03", "March"),
      Core("Monday", "31", "February"),
      Core("Monday", "1", "January"),
      <<CR, LF, SP, SP>> \o Core("Monday", "3", "March") \o <<CR, LF>>,
      Core("Monday", "3", "March") \o <<SP, PAREN, "public", SP, "holiday)">>,
      <<LF, SP>> \o Core("Monday", "3", "March") \o <<LF, SP, PAREN, "public", SP, "holiday)", LF>>,
      Core("Monday", "3", "March") \o <<CR, LF, PAREN, "public", SP, "holiday)">>,
      Core("Monday", "3", "March") \o <<SP, "2024">>,
      <<"Mon", ",", SP, "3", SP, "March">>,
      <<>> }

NoHtml == [ok |-> FALSE, has_date |-> FALSE, has_items |-> FALSE,
           date_text |-> <<>>, items |-> <<>>]

\* the responses of the council site the model feeds
Responses ==
    {NoHtml}
    \cup {[ok |-> TRUE, has_date |-> FALSE, has_items |-> i,
           date_text |-> <<>>, items |-> <<>>] : i \in BOOLEAN}
    \cup {[ok |-> TRUE, has_date |-> TRUE, has_items |-> FALSE,
           date_text |-> Core("Monday", "3", "March"), items |-> <<>>]}
    \cup {[ok |-> TRUE, has_date |-> TRUE, has_items |-> TRUE,
           date_text |-> t, items |-> l] : t \in DateTexts, l \in ItemLists}

At(y, m, d, h) == ToHours([year |-> y, month |-> m, day |-> d, hour |-> h])

\* the clock when the run starts
NowValues ==
    {At(y, 3, 2, h) : y \in Years, h \in {14, 15, 16}}
    \cup {At(y, 3, 3, 8) : y \in Years}
    \cup {At(FirstYear, 12, 31, 23)}

----------------------------------------------------------------------------
(* LEDController *)

GPIO_PIN_RED == 17
GPIO_PIN_GREEN == 27
LOW == FALSE
HIGH == TRUE

\* GPIO.output(pin, level)
GPIO_output(pin, level) ==
    /\ red' = IF pin = GPIO_PIN_RED THEN level ELSE red
    /\ green' = IF pin = GPIO_PIN_GREEN THEN level ELSE green
    /\ writes' = writes + 1

----------------------------------------------------------------------------
(* The run *)

Init ==
    /\ pc = "main"
    /\ STREET_ID \in StreetIdValues
    /\ STREET_NAME \in StreetNameValues
    /\ response = NoHtml
    /\ now \in NowValues
    /\ rubbish_day = NoEvent
    /\ red \in BOOLEAN
    /\ green \in BOOLEAN
    /\ pins0 = [red |-> red, green |-> green]
    /\ writes = 0
    /\ decisions = <<>>
    /\ outcome = "running"

\* bool(env) of line 160
EnvSet(env) == env # None /\ env # ""

\* main, lines 160-161
CheckConfig ==
    /\ pc = "main"
    /\ IF EnvSet(STREET_ID) /\ EnvSet(STREET_NAME)
       THEN pc' = "query" /\ outcome' = outcome
       ELSE pc' = "done" /\ outcome' = "RuntimeError:config"
    /\ UNCHANGED <<STREET_ID, STREET_NAME, response, now, rubbish_day,
                   red, green, pins0, writes, decisions>>

\* a mutant of QueryRubbishDay: a failed query switches the LED off
QueryRubbishDayResetOnError ==
    /\ pc = "query"
    /\ \E r \in Responses :
         /\ response' = r
         /\ IF ~r.ok
            THEN /\ pc' = "done" /\ outcome' = "RuntimeError:response"
                 /\ rubbish_day' = rubbish_day
                 /\ red' = LOW /\ green' = LOW /\ writes' = writes + 2
            ELSE LET res == parse_response(r, YearOf(now))
                 IN  IF res.exc # None
                     THEN /\ pc' = "done" /\ outcome' = res.exc
                          /\ rubbish_day' = rubbish_day
                          /\ red' = LOW /\ green' = LOW /\ writes' = writes + 2
                     ELSE /\ pc' = "set_led" /\ outcome' = outcome
                          /\ rubbish_day' = res.event
                          /\ UNCHANGED <<red, green, writes>>
    /\ UNCHANGED <<STREET_ID, STREET_NAME, now, pins0, decisions>>

\* main line 163: query_rubbish_day(), parse_response included
QueryRubbishDay ==
    /\ pc = "query"
    /\ \E r \in Responses :
         /\ response' = r
         /\ IF ~r.ok
            THEN /\ pc' = "done" /\ outcome' = "RuntimeError:response"
                 /\ rubbish_day' = rubbish_day
            ELSE LET res == parse_response(r, YearOf(now))
                 IN  IF res.exc # None
                     THEN /\ pc' = "done" /\ outcome' = res.exc
                          /\ rubbish_day' = rubbish_day
                     ELSE /\ pc' = "set_led" /\ outcome' = outcome
                          /\ rubbish_day' = res.event
    /\ UNCHANGED <<STREET_ID, STREET_NAME, now, red, green, pins0, writes, decisions>>

\* LEDController.__init__: GPIO.setup makes the pins outputs, levels kept
LEDControllerInit ==
    /\ pc = "set_led"
    /\ pc' = "turn_off_red"
    /\ UNCHANGED <<STREET_ID, STREET_NAME, response, now, rubbish_day,
                   red, green, pins0, writes, decisions, outcome>>

\* turn_off, line 58
TurnOffRed ==
    /\ pc = "turn_off_red"
    /\ GPIO_output(GPIO_PIN_RED, LOW)
    /\ pc' = "turn_off_green"
    /\ UNCHANGED <<STREET_ID, STREET_NAME, response, now, rubbish_day,
                   pins0, decisions, outcome>>

\* a mutant of TurnOffGreen: the write is missing
TurnOffGreenMissing ==
    /\ pc = "turn_off_green"
    /\ pc' = "decide"
    /\ UNCHANGED <<STREET_ID, STREET_NAME, response, now, rubbish_day,
                   red, green, writes, pins0, decisions, outcome>>

\* turn_off, line 59
TurnOffGreen ==
    /\ pc = "turn_off_green"
    /\ GPIO_output(GPIO_PIN_GREEN, LOW)
    /\ pc' = "decide"
    /\ UNCHANGED <<STREET_ID, STREET_NAME, response, now, rubbish_day,
                   pins0, decisions, outcome>>

\* set_led_appropriately, lines 141-153: the clock is read again, and the
\* branch taken is the decision
DecideStep ==
    /\ pc = "decide"
    /\ \E dt \in 0..MaxElapsed : now' = now + dt
    /\ LET decision == Decide(rubbish_day, now')
       IN  /\ decisions' = Append(decisions, decision)
           /\ CASE decision = "NONE" -> pc' = "done" /\ outcome' = "exit:1"
                [] decision = RECYCLING_BAG -> pc' = "turn_red_red" /\ outcome' = outcome
                [] decision = GLASS_CRATE -> pc' = "turn_green_red" /\ outcome' = outcome
                [] OTHER -> pc' = "done" /\ outcome' = "AssertionError"
    /\ UNCHANGED <<STREET_ID, STREET_NAME, response, rubbish_day,
                   red, green, pins0, writes>>

\* turn_red, line 62
TurnRedRed ==
    /\ pc = "turn_red_red"
    /\ GPIO_output(GPIO_PIN_RED, HIGH)
    /\ pc' = "turn_red_green"
    /\ UNCHANGED <<STREET_ID, STREET_NAME, response, now, rubbish_day,
                   pins0, decisions, outcome>>

\* turn_red, line 63, then return True and main returns 0
TurnRedGreen ==
    /\ pc = "turn_red_green"
    /\ GPIO_output(GPIO_PIN_GREEN, LOW)
    /\ pc' = "done" /\ outcome' = "exit:0"
    /\ UNCHANGED <<STREET_ID, STREET_NAME, response, now, rubbish_day,
                   pins0, decisions>>

\* turn_green, line 66
TurnGreenRed ==
    /\ pc = "turn_green_red"
    /\ GPIO_output(GPIO_PIN_RED, LOW)
    /\ pc' = "turn_green_green"
    /\ UNCHANGED <<STREET_ID, STREET_NAME, response, now, rubbish_day,
                   pins0, decisions, outcome>>

\* turn_green, line 67, then return True and main returns 0
TurnGreenGreen ==
    /\ pc = "turn_green_green"
    /\ GPIO_output(GPIO_PIN_GREEN, HIGH)
    /\ pc' = "done" /\ outcome' = "exit:0"
    /\ UNCHANGED <<STREET_ID, STREET_NAME, response, now, rubbish_day,
                   pins0, decisions>>

Next ==
    \/ CheckConfig
    \/ QueryRubbishDay
    \/ LEDControllerInit
    \/ TurnOffRed
    \/ TurnOffGreen
    \/ DecideStep
    \/ TurnRedRed
    \/ TurnRedGreen
    \/ TurnGreenRed
    \/ TurnGreenGreen

Spec == Init /\ [][Next]_vars

----------------------------------------------------------------------------
(* set_led_appropriately called again and again for one event, as the      *)
(* clock moves on: the decision as a function of the time.                 *)

Html(t, l) == [ok |-> TRUE, has_date |-> TRUE, has_items |-> TRUE,
               date_text |-> t, items |-> l]

\* events parse_response returns
MonoEvents ==
    {parse_response(Html(t, l), y).event :
        t \in {Core("Monday", "3", "March"), Core("Monday", "1", "January")},
        l \in {<<>>, <<"Rubbish">>, <<"Glass crate">>,
               <<"Wheelie bin or recycling bags">>,
               <<"Glass crate", "Wheelie bin or recycling bags">>,
               <<"Rubbish", "Glass crate">>},
        y \in Years}

\* hours between two calls
MonoSteps == 0..MaxElapsed \cup {24}

MonoInit ==
    /\ pc = "set_led"
    /\ STREET_ID = "1234"
    /\ STREET_NAME = "Example Street"
    /\ response = NoHtml
    /\ now \in NowValues
    /\ rubbish_day \in MonoEvents
    /\ red \in BOOLEAN
    /\ green \in BOOLEAN
    /\ pins0 = [red |-> red, green |-> green]
    /\ writes = 0
    /\ decisions = <<>>
    /\ outcome = "running"

\* set_led_appropriately, lines 138-155, as one step
SetLedAppropriately ==
    /\ pc = "set_led"
    /\ Len(decisions) < MaxTicks
    /\ \E dt \in MonoSteps : now' = now + dt
    /\ LET decision == Decide(rubbish_day, now')
       IN  /\ decisions' = Append(decisions, decision)
           /\ red' = (decision = RECYCLING_BAG)
           /\ green' = (decision = GLASS_CRATE)
           /\ writes' = writes + (IF decision \in {RECYCLING_BAG, GLASS_CRATE} THEN 4 ELSE 2)
           /\ outcome' = CASE decision = "NONE" -> "exit:1"
                           [] decision \in {RECYCLING_BAG, GLASS_CRATE} -> "exit:0"
                           [] OTHER -> "AssertionError"
    /\ UNCHANGED <<pc, STREET_ID, STREET_NAME, response, rubbish_day, pins0>>

MonoNext == SetLedAppropriately

SpecMono == MonoInit /\ [][MonoNext]_vars

----------------------------------------------------------------------------
(* Properties *)

Done == pc = "done"
Exceptions ==
    {"RuntimeError:config", "RuntimeError:response", "ValueError:no_collection_date",
     "ValueError:no_collection_items", "ValueError:strptime", "ValueError:datetime",
     "AttributeError:unknown_bin_type", "AssertionError"}
Decided == decisions # <<>>
\* hours from the clock read of set_led_appropriately to the collection
Remaining == ToHours(rubbish_day.date) - now
InWindow == Decided /\ Remaining <= REMIND_HOURS_BEFORE
Has(b) == \E i \in 1..Len(rubbish_day.bins) : rubbish_day.bins[i] = b

\* C1: set_led_appropriately declines (both pins LOW, returns False, so main
\* exits 1) exactly when the collection is more than 16 hours away; at 16
\* hours or less, a collection in the past included, it goes on to choose
\* by bin.
C1_DeclinesExactlyWhenTooEarly ==
    Decided =>
        /\ (Remaining > REMIND_HOURS_BEFORE)
              <=> (Done /\ outcome = "exit:1" /\ ~red /\ ~green)
        /\ (Remaining <= REMIND_HOURS_BEFORE)
              => decisions[1] \in {RECYCLING_BAG, GLASS_CRATE, "AssertionError"}

C1_Witness ==
    /\ Done /\ Remaining = REMIND_HOURS_BEFORE /\ outcome = "exit:0"

\* C2: inside the remind window, an event with both RECYCLING_BAG and
\* GLASS_CRATE among its bins gets the recycling signal (red HIGH, green LOW)
\* and green is never lit.
C2_RecyclingOverGlass ==
    (InWindow /\ Has(RECYCLING_BAG) /\ Has(GLASS_CRATE)) =>
        /\ ~green
        /\ Done => (red /\ outcome = "exit:0")

C2_Witness ==
    /\ Done /\ InWindow /\ red /\ ~green
    /\ rubbish_day.bins = <<GLASS_CRATE, RUBBISH, RECYCLING_BAG>>

\* C6: inside the remind window, an event with neither RECYCLING_BAG nor
\* GLASS_CRATE among its bins ends in the AssertionError, with no colour lit.
C6_NeitherBinRaises ==
    (InWindow /\ ~Has(RECYCLING_BAG) /\ ~Has(GLASS_CRATE)) =>
        /\ Done /\ outcome = "AssertionError"
        /\ ~red /\ ~green

C6_Witness ==
    /\ Done /\ InWindow /\ outcome = "AssertionError"
    /\ rubbish_day.bins = <<RUBBISH>> /\ pins0.green

----------------------------------------------------------------------------
(* Properties of parse_response.  The table of labels and the shape of a    *)
(* date text are stated here on their own, apart from the code's.          *)

Parsed == pc \notin {"main", "query"} /\ response.ok
\* the clock has not moved since parse_response read the year
YearAtParse == YearOf(now)
ClockAsAtParse == decisions = <<>>

RecognizedLabels == {"Rubbish", "Glass crate", "Wheelie bin or recycling bags"}
LabelBin(label) ==
    CASE label = "Rubbish" -> RUBBISH
      [] label = "Glass crate" -> GLASS_CRATE
      [] label = "Wheelie bin or recycling bags" -> RECYCLING_BAG
AllRecognized(items) == \A i \in 1..Len(items) : items[i] \in RecognizedLabels
Images(items) == [i \in 1..Len(items) |-> LabelBin(items[i])]

\* the date text, whitespace and the annotation from the first "(" dropped,
\* reads weekday, comma, day, month, and the day exists in that month of year
RecognizedDate(text, year) ==
    LET t == CleanDate(text)
    IN  /\ Len(t) = 4
        /\ t[1] \in WeekdayNames
        /\ t[2] = ","
        /\ MonthNumber(t[4]) \in 1..12
        /\ DayNumber(t[3]) \in 1..DaysInMonth(year, MonthNumber(t[4]))

\* the date handling of parse_response raised nothing
DateAccepted(text, year) ==
    /\ Strptime(CleanDate(text)).ok
    /\ ValidDate(year, Strptime(CleanDate(text)).month, Strptime(CleanDate(text)).day)

WellFormed ==
    /\ response.ok /\ response.has_date /\ response.has_items
    /\ RecognizedDate(response.date_text, YearAtParse)
    /\ response.items # <<>> /\ AllRecognized(response.items)

\* C3: for every well-formed response (a recognized date text, a non-empty
\* list of recognized labels) parse_response returns the event whose bins are
\* the images of the labels, whose month and day are those of the text, whose
\* year is the current year and whose hour is 7.
C3_WellFormedParses ==
    (Parsed /\ ClockAsAtParse /\ WellFormed) =>
        LET t == CleanDate(response.date_text)
        IN  rubbish_day = [date |-> [year |-> YearAtParse,
                                     month |-> MonthNumber(t[4]),
                                     day |-> DayNumber(t[3]),
                                     hour |-> 7],
                           bins |-> Images(response.items)]

\* C4: a list with an unrecognized label makes parse_response raise and
\* return no event; a list of recognized labels only, "Rubbish" among them,
\* is accepted label by label (the date text being one the code takes).
C4_UnknownLabelRaises ==
    Parsed =>
        /\ ~AllRecognized(response.items)
              => (rubbish_day = NoEvent /\ Done /\ outcome \in Exceptions)
        /\ ( /\ response.has_date /\ response.has_items
             /\ ClockAsAtParse
             /\ DateAccepted(response.date_text, YearAtParse)
             /\ AllRecognized(response.items) )
              => (rubbish_day # NoEvent /\ rubbish_day.bins = Images(response.items))

C4_Witness ==
    /\ Parsed /\ pc = "set_led"
    /\ response.items = <<"Glass crate", "Rubbish">>
    /\ rubbish_day.bins = <<GLASS_CRATE, RUBBISH>>

\* C5: every event parse_response returns has at least one bin; a response
\* whose list has no items is rejected.
C5_BinsNeverEmpty ==
    (Parsed /\ rubbish_day # NoEvent) => rubbish_day.bins # <<>>

----------------------------------------------------------------------------
(* Properties of the pins *)

\* C7: a run that does not signal (any exit but 0) ends with both pins LOW,
\* whatever the pins were when it started.
C7_FailedRunLeavesNoColour ==
    (Done /\ outcome # "exit:0") => (~red /\ ~green)

\* C8 as stated: a run that ends in an exception has written no pin, and the
\* pins are as the run found them.
C8_ErrorRunWritesNoPin ==
    (Done /\ outcome \in Exceptions) =>
        (writes = 0 /\ red = pins0.red /\ green = pins0.green)

\* C8, amended: a run that ends in the config, transport or parse exception
\* has written no pin and leaves the pins as it found them; a run that ends
\* in the AssertionError of set_led_appropriately has written the two LOWs
\* of turn_off and nothing else; pins are written only in runs that produced
\* an event.
C8_ErrorBeforeEventWritesNoPin ==
    /\ (Done /\ outcome \in Exceptions \ {"AssertionError"}) =>
          (writes = 0 /\ red = pins0.red /\ green = pins0.green)
    /\ (Done /\ outcome = "AssertionError") => (writes = 2 /\ ~red /\ ~green)
    /\ writes > 0 => rubbish_day # NoEvent

C8_Witness ==
    /\ Done /\ outcome = "ValueError:strptime"
    /\ pins0.red /\ red /\ writes = 0

\* C9: in a run that starts with at most one colour lit, red and green are
\* never both HIGH, between any two pin writes.
C9_NeverBothHigh ==
    ~(pins0.red /\ pins0.green) => ~(red /\ green)

C9_Witness ==
    /\ Done /\ outcome = "exit:0"
    /\ pins0.green /\ ~pins0.red /\ red /\ ~green

\* C10: for one event and a clock that never goes back, once the decision
\* is something other than "no signal" it stays what it is at every later
\* evaluation: the decision changes at most once and never back to "no
\* signal".
C10_DecisionMonotonic ==
    \A i \in 1..Len(decisions) : \A j \in i..Len(decisions) :
        decisions[i] # "NONE" => decisions[j] = decisions[i]

C10_Witness ==
    /\ Len(decisions) = 3
    /\ decisions[1] = "NONE" /\ decisions[2] = GLASS_CRATE /\ decisions[3] = GLASS_CRATE
    /\ Remaining < 0

====
